---- MODULE Spec2Model ----
(***************************************************************************)
(* Asset URL resolution and catalog caching of the video storefront.       *)
(*                                                                         *)
(* WasabiService (signed-URL resolution with a TTL cache, a concurrency    *)
(* gate and a retry loop), VideoServiceSupabase (read-through cache of the *)
(* video listing with invalidation on mutation) and the VideoService       *)
(* facade the pages call.                                                  *)
(*                                                                         *)
(* JavaScript runs these async functions on one thread: the code between   *)
(* two awaits is one atomic step, and every await is a point where any     *)
(* other pending continuation may run.  Each action below is one such      *)
(* segment; an asynchronous call is a process whose pc names the await at  *)
(* which it is suspended.                                                  *)
(***************************************************************************)
EXTENDS Naturals, Integers, Sequences, FiniteSets, TLC

VARIABLES
    now,              \* Date.now(), in milliseconds
    isInitialized,    \* WasabiService.isInitialized
    config,           \* WasabiService.config
    thumbnailCache,   \* WasabiService.thumbnailCache: id -> [url, timestamp]
                      \* (and, as history, the call that stored the entry)
    activeRequests,   \* WasabiService.activeRequests: set of ids
    endpoint,         \* the signing endpoint: per attempt number of a
                      \* resolution, the outcomes it may produce
    signatures,       \* the signatures the endpoint may put in a signed URL
    call,             \* the getThumbnailUrl / getFileUrl calls
    store,            \* the videos table of the metadata store
    videosCache,      \* VideoServiceSupabase.videosCache
    cacheTimestamp,   \* VideoServiceSupabase.cacheTimestamp
    facadeVideosCache,    \* VideoService.videosCache
    facadeCacheTimestamp, \* VideoService.cacheTimestamp
    proc,             \* the calls of VideoServiceSupabase and VideoService
    hist,             \* history of the catalog, for the properties
    site              \* SiteConfigServiceSupabase: configCache,
                      \* cacheTimestamp, its calls, and the site_config
                      \* and crypto_wallets tables of the store

wasabiVars ==
    <<isInitialized, config, thumbnailCache, activeRequests, endpoint,
      signatures, call>>

catalogVars ==
    <<store, videosCache, cacheTimestamp, facadeVideosCache,
      facadeCacheTimestamp, proc, hist>>

configVars == <<site>>

vars == <<now, wasabiVars, catalogVars, configVars>>

-----------------------------------------------------------------------------
(* Bounds of the model. *)

NumCalls == 3        \* calls of the cache specification
RetryCalls == 1      \* calls of the retry specification
BurstCalls == 6      \* calls of the burst specification
MaxTicks == 3        \* clock steps of the cache specification
NumProcs == 2

(* SpecSort: the getAllVideos calls in flight at a time. *)
SortProcs == 1        \* calls of the catalog specification in flight at once
MaxWrites == 1       \* writes to the metadata store
MaxCatalogTicks == 1 \* clock steps of the catalog specification
ConfigProcs == 2     \* calls of the site configuration service in flight
MaxConfigWrites == 2 \* writes of the site_config row
MaxConfigTicks == 1  \* clock steps of the configuration specification

-----------------------------------------------------------------------------
(* Program constants. *)

CACHE_DURATION == 30 * 60 * 1000

MAX_CONCURRENT_REQUESTS == 5

maxRetries == 3

VIDEOS_CACHE_DURATION == 5 * 60 * 1000

CONFIG_CACHE_DURATION == 10 * 60 * 1000

useSupabaseForVideos == TRUE

(* The clock advances in steps of half the asset TTL, so that an entry is   *)
(* seen at ages 0, TTL/2, TTL (still served) and 3*TTL/2 (expired).         *)
TickStep == CACHE_DURATION \div 2

(* In the catalog it advances in steps of the listing TTL: a snapshot is    *)
(* valid in the step it was stored in and expired in the next.              *)
CatalogTickStep == VIDEOS_CACHE_DURATION

-----------------------------------------------------------------------------
(* Values. *)

(* A storage identifier, split at its folder prefix: the identifier string *)
(* is folder \o name, and id.startsWith("thumbnails/") is                  *)
(* folder = "thumbnails/".                                                 *)
Ids ==
    { [folder |-> "", name |-> "a.jpg"],
      [folder |-> "thumbnails/", name |-> "b.jpg"],
      [folder |-> "videos/", name |-> "c.mp4"] }

(* The identifier of the cache specification. *)
CacheIds == { [folder |-> "", name |-> "a.jpg"] }

BurstId(c) == [folder |-> "", name |-> ToString(c) \o ".jpg"]

IdString(i) == i.folder \o i.name

NoUrl == ""

NoConfig == [bucket |-> "null", region |-> "null"]

defaultWasabiConfig == [bucket |-> "", region |-> ""]

SiteWasabiConfig == [bucket |-> "media", region |-> "eu-central-1"]

(* What one signing request can end in. *)
Thrown == {"AbortError", "ECONNRESET", "ETIMEDOUT", "TypeError"}

Bodies == {"good", "nosuccess", "badjson"}

Outcomes == Thrown \cup Bodies \cup {"non2xx"}

Failures == Outcomes \ {"good"}

(* The URL the endpoint signs for identifier i with signature s. *)
SignedUrl(i, s) == "https://signed/" \o IdString(i) \o "?sig=" \o s

IdleCall ==
    [pc |-> "idle", kind |-> "none", id |-> [folder |-> "", name |-> ""],
     attempt |-> 0, reqs |-> 0, log |-> <<>>, result |-> NoUrl,
     prior |-> {}, fresh |-> {}, served |-> 0, entryAt |-> 0,
     lookupAt |-> 0, released |-> 0]

Calls == DOMAIN call

-----------------------------------------------------------------------------
(* WasabiService helpers. *)

cleanExpiredCacheInverted(cache, t) ==
    [i \in {j \in DOMAIN cache : ~(t - cache[j].timestamp < CACHE_DURATION)}
        |-> cache[i]]

(* cleanExpiredCache: drops the entries with now - timestamp > CACHE_DURATION *)
cleanExpiredCache(cache, t) ==
    [i \in {j \in DOMAIN cache : ~(t - cache[j].timestamp > CACHE_DURATION)}
        |-> cache[i]]

(* getCachedThumbnailUrl, on the swept cache: cached ? cached.url : null *)
getCachedThumbnailUrl(cache, i) ==
    IF i \in DOMAIN cache THEN cache[i].url ELSE NoUrl

(* A cache that keeps the entry an identifier has and drops the new one. *)
setCachedThumbnailUrlKeepFirst(cache, i, url, t) ==
    [j \in DOMAIN cache \cup {i} |->
        IF j \in DOMAIN cache THEN cache[j] ELSE [url |-> url, timestamp |-> t]]

(* setCachedThumbnailUrl *)
setCachedThumbnailUrl(cache, i, url, t) ==
    [j \in DOMAIN cache \cup {i} |->
        IF j = i THEN [url |-> url, timestamp |-> t] ELSE cache[j]]

(* History kept beside an entry: the call that stored it. *)
EntryBy(cache, i, c) ==
    [cache EXCEPT ![i] = [url |-> @.url, timestamp |-> @.timestamp, by |-> c]]

(* addActiveRequest *)
addActiveRequest(active, i) == active \cup {i}

removeActiveRequestNever(active, i) == active

(* removeActiveRequest *)
removeActiveRequest(active, i) == active \ {i}

(* The loop condition of waitForAvailableSlot, negated. *)
SlotAvailable(active) == ~(Cardinality(active) >= MAX_CONCURRENT_REQUESTS)

IsRetriableAbortOnly(o) == o = "AbortError"

IsRetriableNever(o) == FALSE

(* The test of the catch blocks: timeout or connection error. *)
IsRetriable(o) == o \in {"AbortError", "ECONNRESET", "ETIMEDOUT"}

AttemptsLeftOffByOne(n) == n <= maxRetries

(* attempt < maxRetries *)
AttemptsLeft(n) == n < maxRetries

(* The fallback direct URL of getThumbnailUrl and of getFileUrl. *)
FallbackUrl(k, i, cfg) ==
    LET host == "https://" \o cfg.bucket \o ".s3." \o cfg.region
                    \o ".wasabisys.com/"
    IN  IF k = "thumb"
        THEN IF i.folder = "thumbnails/"
             THEN host \o IdString(i)
             ELSE host \o "thumbnails/" \o IdString(i)
        ELSE IF i.folder = "videos/" \/ i.folder = "thumbnails/"
             THEN host \o IdString(i)
             ELSE host \o "videos/" \o IdString(i)

(* The endpoint's behaviour at attempt n of a resolution; past the end of  *)
(* its plan it behaves as at the last attempt planned.                     *)
EndpointAt(n) == endpoint[IF n > Len(endpoint) THEN Len(endpoint) ELSE n]

-----------------------------------------------------------------------------
(* The calls of WasabiService.  The fields of call[c]:                      *)
(*   pc       where the call is suspended: idle (not called), siteconfig    *)
(*            and init (in checkInitialized), poll and slot (in             *)
(*            waitForAvailableSlot), fetch (the signing request is in       *)
(*            flight), json (response.json()), backoff, done                *)
(*   kind     thumb (getThumbnailUrl) or file (getFileUrl)                  *)
(*   attempt  the loop variable of the retry loop                          *)
(*   result   the URL returned                                              *)
(* and, as history: reqs, the signing requests the call has issued; log,    *)
(* the outcome of each of them; prior, the calls for the same identifier    *)
(* of the same kind that had completed when this one was called; fresh,     *)
(* those of prior whose entry was younger than the TTL at this call's cache *)
(* lookup; served, the call that stored the entry this call was served;     *)
(* entryAt, the timestamp of the entry the call stored or was served;       *)
(* lookupAt, the time of the lookup that served the call; released, the     *)
(* times the call's finally block has run removeActiveRequest.              *)

Set(c, r) == call' = [call EXCEPT ![c] = r]

(* The call returns url. getThumbnailUrl stores it first, and its finally   *)
(* block removes the identifier from activeRequests.                        *)
Return(c, url, lg) ==
    LET k == call[c].kind
        i == call[c].id
    IN  /\ Set(c, [call[c] EXCEPT !.pc = "done", !.result = url, !.log = lg,
                                  !.entryAt = IF k = "thumb" THEN now ELSE 0,
                                  !.released = IF k = "thumb" THEN @ + 1 ELSE @])
        /\ thumbnailCache' =
              IF k = "thumb"
              THEN EntryBy(setCachedThumbnailUrl(thumbnailCache, i, url, now), i, c)
              ELSE thumbnailCache
        /\ activeRequests' =
              IF k = "thumb" THEN removeActiveRequest(activeRequests, i)
              ELSE activeRequests

(* An attempt has failed with outcome o: wait and try again when retry,     *)
(* else leave the loop and return the fallback URL.                         *)
Failed(c, o, retry) ==
    LET lg == Append(call[c].log, o)
    IN  IF retry
        THEN /\ Set(c, [call[c] EXCEPT !.pc = "backoff", !.log = lg])
             /\ UNCHANGED <<thumbnailCache, activeRequests>>
        ELSE Return(c, FallbackUrl(call[c].kind, call[c].id, config), lg)

(* getThumbnailUrl(i) / getFileUrl(i) is called and runs to its first await, *)
(* in checkInitialized: the fetch of the site configuration when the        *)
(* service is not initialized, else the await of the call itself.  Calls    *)
(* are numbered in the order they are made.                                 *)
Start(c, k, i) ==
    /\ call[c].pc = "idle"
    /\ \A d \in Calls : d < c => call[d].pc # "idle"
    /\ Set(c, [call[c] EXCEPT
                 !.pc = IF ~isInitialized \/ config = NoConfig
                        THEN "siteconfig" ELSE "init",
                 !.kind = k,
                 !.id = i,
                 !.prior = {d \in Calls : /\ call[d].pc = "done"
                                          /\ call[d].kind = k
                                          /\ call[d].id = i}])
    /\ UNCHANGED <<now, isInitialized, config, thumbnailCache, activeRequests,
                   endpoint, signatures>>
    /\ UNCHANGED <<catalogVars, configVars>>

StartThumbnailUrl(c, ids) == \E i \in ids : Start(c, "thumb", i)

StartFileUrl(c, ids) == \E i \in ids : Start(c, "file", i)

(* initializeWithDefaultConfig: the site configuration, when it can be      *)
(* loaded and has a wasabiConfig, else defaultWasabiConfig.                 *)
SiteConfigSettles(c) ==
    /\ call[c].pc = "siteconfig"
    /\ \E cfg \in {SiteWasabiConfig, defaultWasabiConfig} : config' = cfg
    /\ isInitialized' = TRUE
    /\ Set(c, [call[c] EXCEPT !.pc = "init"])
    /\ UNCHANGED <<now, thumbnailCache, activeRequests, endpoint, signatures>>
    /\ UNCHANGED <<catalogVars, configVars>>

(* getThumbnailUrl after checkInitialized: the cache lookup, and on a miss  *)
(* the first test of waitForAvailableSlot.                                  *)
LookupThumbnail(c) ==
    LET i == call[c].id
        swept == cleanExpiredCache(thumbnailCache, now)
        cachedUrl == getCachedThumbnailUrl(swept, i)
        young == {d \in call[c].prior : now - call[d].entryAt < CACHE_DURATION}
    IN  /\ call[c].pc = "init"
        /\ call[c].kind = "thumb"
        /\ thumbnailCache' = swept
        /\ IF cachedUrl # NoUrl
           THEN Set(c, [call[c] EXCEPT !.pc = "done", !.result = cachedUrl,
                                       !.fresh = young, !.lookupAt = now,
                                       !.served = swept[i].by,
                                       !.entryAt = swept[i].timestamp])
           ELSE Set(c, [call[c] EXCEPT
                          !.pc = IF SlotAvailable(activeRequests)
                                 THEN "slot" ELSE "poll",
                          !.fresh = young])
        /\ UNCHANGED <<now, isInitialized, config, activeRequests, endpoint,
                       signatures>>
        /\ UNCHANGED <<catalogVars, configVars>>

(* waitForAvailableSlot: the 100 ms timer fires and the loop tests again;   *)
(* the call leaves the loop when it finds a slot.                           *)
PollSlot(c) ==
    /\ call[c].pc = "poll"
    /\ SlotAvailable(activeRequests)
    /\ Set(c, [call[c] EXCEPT !.pc = "slot"])
    /\ UNCHANGED <<now, isInitialized, config, thumbnailCache, activeRequests,
                   endpoint, signatures>>
    /\ UNCHANGED <<catalogVars, configVars>>

(* getThumbnailUrl resumes from `await this.waitForAvailableSlot()`:        *)
(* addActiveRequest, then the first signing request.                        *)
TakeSlot(c) ==
    /\ call[c].pc = "slot"
    /\ activeRequests' = addActiveRequest(activeRequests, call[c].id)
    /\ Set(c, [call[c] EXCEPT !.pc = "fetch", !.attempt = 1, !.reqs = 1])
    /\ UNCHANGED <<now, isInitialized, config, thumbnailCache, endpoint,
                   signatures>>
    /\ UNCHANGED <<catalogVars, configVars>>

(* getFileUrl after checkInitialized: the first signing request. *)
FirstFileRequest(c) ==
    /\ call[c].pc = "init"
    /\ call[c].kind = "file"
    /\ Set(c, [call[c] EXCEPT !.pc = "fetch", !.attempt = 1, !.reqs = 1])
    /\ UNCHANGED <<now, isInitialized, config, thumbnailCache, activeRequests,
                   endpoint, signatures>>
    /\ UNCHANGED <<catalogVars, configVars>>

(* The signing request settles: a 2xx response (response.json() is called), *)
(* a non-2xx response, or an exception from fetch.                          *)
FetchSettles(c) ==
    /\ call[c].pc = "fetch"
    /\ \E o \in EndpointAt(call[c].attempt) :
          IF o \in Bodies
          THEN /\ Set(c, [call[c] EXCEPT !.pc = "json"])
               /\ UNCHANGED <<thumbnailCache, activeRequests>>
          ELSE IF o = "non2xx"
          THEN Failed(c, o, AttemptsLeft(call[c].attempt))
          ELSE Failed(c, o, IsRetriable(o) /\ AttemptsLeft(call[c].attempt))
    /\ UNCHANGED <<now, isInitialized, config, endpoint, signatures>>
    /\ UNCHANGED <<catalogVars, configVars>>

(* response.json() settles: a body with success and url, a body without,   *)
(* or an exception.                                                         *)
JsonSettles(c) ==
    /\ call[c].pc = "json"
    /\ \E o \in EndpointAt(call[c].attempt) \cap Bodies :
          IF o = "good"
          THEN \E s \in signatures :
                  Return(c, SignedUrl(call[c].id, s), Append(call[c].log, o))
          ELSE IF o = "nosuccess"
          THEN Failed(c, o, AttemptsLeft(call[c].attempt))
          ELSE Failed(c, o, IsRetriable(o) /\ AttemptsLeft(call[c].attempt))
    /\ UNCHANGED <<now, isInitialized, config, endpoint, signatures>>
    /\ UNCHANGED <<catalogVars, configVars>>

(* The backoff timer fires: the next attempt's signing request. *)
BackoffEnds(c) ==
    /\ call[c].pc = "backoff"
    /\ Set(c, [call[c] EXCEPT !.pc = "fetch", !.attempt = @ + 1, !.reqs = @ + 1])
    /\ UNCHANGED <<now, isInitialized, config, thumbnailCache, activeRequests,
                   endpoint, signatures>>
    /\ UNCHANGED <<catalogVars, configVars>>

(* Time passes. *)
Tick ==
    /\ now < 1 + MaxTicks * TickStep
    /\ now' = now + TickStep
    /\ UNCHANGED <<isInitialized, config, thumbnailCache, activeRequests,
                   endpoint, signatures, call>>
    /\ UNCHANGED <<catalogVars, configVars>>

-----------------------------------------------------------------------------
(* The catalog. *)

(* The videos the store can hold, in the order getVideos returns them     *)
(* (created_at descending). v1 has a thumbnail, the others have none.      *)
VideoOrder == <<"v1", "v2", "v3">>

VideoIds == {VideoOrder[k] : k \in 1..Len(VideoOrder)}

(* The videos the mutations are about. *)
MutatedIds == {"v1", "v2"}

(* The position of v in the order getVideos returns. *)
FetchPos(v) == CHOOSE k \in 1..Len(VideoOrder) : VideoOrder[k] = v

(* The columns of a row the sort options read: created_at as the time      *)
(* new Date(createdAt).getTime() gives, price, views after `|| 0`, and      *)
(* duration as the parts split(':') gives.                                  *)
PlainColumns ==
    [createdAt |-> 1, price |-> 10, views |-> 0, duration |-> <<"00", "00">>]

Columns ==
    [createdAt : {1, 2}, price : {5, 10}, views : {0, 7},
     duration : {<<"05", "00">>, <<"01", "30", "00">>, <<"90">>}]

(* The durations of the duration specification: MM:SS, HH:MM:SS, a single   *)
(* part, and parts that are no numbers.                                     *)
Durations ==
    {<<"05", "00">>, <<"01", "30", "00">>, <<"00", "45">>, <<"90">>,
     <<"xx", "yy">>}

DurationInputs ==
    {[v \in VideoIds |-> [PlainColumns EXCEPT !.duration = d[v]]] :
        d \in [VideoIds -> Durations]}

(* The tables of columns getVideos can return in VideoOrder: created_at    *)
(* does not increase along it.                                             *)
SortInputs ==
    {a \in [VideoIds -> Columns] :
        \A k \in 1..(Len(VideoOrder) - 1) :
            a[VideoOrder[k]].createdAt >= a[VideoOrder[k + 1]].createdAt}

InitialStore == [ver |-> 0, rows |-> {"v1"}, cols |-> [v \in VideoIds |-> PlainColumns]]

SortOptions == {"newest", "price_asc", "price_desc", "views_desc", "duration_desc"}

(* A JavaScript number: NaN, or the integer val. *)
NaN == [nan |-> TRUE, val |-> 0]

Num(n) == [nan |-> FALSE, val |-> n]

(* Number(part): the number a string of decimal digits writes, 0 for the   *)
(* empty string, NaN for every other string.                               *)
Number(part) ==
    CASE part \in {"", "00"} -> Num(0)
      [] part = "01" -> Num(1)
      [] part = "05" -> Num(5)
      [] part = "30" -> Num(30)
      [] part = "45" -> Num(45)
      [] part = "90" -> Num(90)
      [] OTHER -> NaN

(* a * n + b, and a - b, of JavaScript numbers: NaN when an operand is. *)
TimesPlus(a, n, b) == IF a.nan \/ b.nan THEN NaN ELSE Num(a.val * n + b.val)

Minus(a, b) == IF a.nan \/ b.nan THEN NaN ELSE Num(a.val - b.val)

(* What Array.prototype.sort makes of the comparator's result: NaN is +0. *)
ComparatorResult(x) == IF x.nan THEN 0 ELSE x.val

getDurationInSeconds(parts) ==
    LET n == [k \in DOMAIN parts |-> Number(parts[k])]
    IN  IF Len(parts) = 2 THEN TimesPlus(n[1], 60, n[2])
        ELSE IF Len(parts) = 3
             THEN TimesPlus(TimesPlus(n[1], 60, n[2]), 60, n[3])
             ELSE Num(0)

(* The comparator of sortOption on the videos a and b. *)
Comparator(sortOption, a, b) ==
    LET A == store.cols[a]
        B == store.cols[b]
    IN  CASE sortOption = "newest" -> B.createdAt - A.createdAt
          [] sortOption = "price_asc" -> A.price - B.price
          [] sortOption = "price_desc" -> B.price - A.price
          [] sortOption = "views_desc" -> B.views - A.views
          [] sortOption = "duration_desc" ->
                 ComparatorResult(Minus(getDurationInSeconds(B.duration),
                                        getDurationInSeconds(A.duration)))

(* Array.prototype.sort places x: it is stable, so x, which came later,    *)
(* goes before the first element the comparator puts after it.             *)
RECURSIVE InsertSorted(_, _, _)
InsertSorted(sortOption, sorted, x) ==
    IF sorted = << >> THEN <<x>>
    ELSE IF Comparator(sortOption, Head(sorted), x) > 0
         THEN <<x>> \o sorted
         ELSE <<Head(sorted)>> \o InsertSorted(sortOption, Tail(sorted), x)

RECURSIVE sortVideos(_, _)
sortVideos(videos, sortOption) ==
    IF sortOption \notin SortOptions \/ videos = << >> THEN videos
    ELSE InsertSorted(sortOption,
                      sortVideos(SubSeq(videos, 1, Len(videos) - 1), sortOption),
                      videos[Len(videos)])

(* The array kept in videosCache after the other array was sorted in place, *)
(* had the two been one array.                                              *)
StoredAliased(stored, sorted) == [stored EXCEPT !.order = sorted]

(* The array kept in videosCache after the other array was sorted in place: *)
(* [...videos] and [...this.videosCache!] are copies, so it is as it was.   *)
StoredAfterSort(stored, sorted) == stored

thumbnailFileId(v) == IF v = "v1" THEN "thumbnails/v1.jpg" ELSE ""

(* The title and the description of each video of the store. *)
Title(v) ==
    CASE v = "v1" -> "Category A"
      [] v = "v2" -> "Dog Video"
      [] v = "v3" -> "Concatenate"

Description(v) ==
    CASE v = "v1" -> "First"
      [] v = "v2" -> "Barks"
      [] v = "v3" -> ""

Queries == {"", "cat"}

(* The queries of the search specification: different case, surrounding     *)
(* whitespace, whitespace only, a word of a description, no match.          *)
SearchQueries == {"", "cat", "CAT", " cat ", "  ", "bark", "zebra"}

(* The characters of a string, in order. *)
Chars(s) ==
    CASE s = "" -> << >>
      [] s = "cat" -> <<"c", "a", "t">>
      [] s = "CAT" -> <<"C", "A", "T">>
      [] s = " cat " -> <<" ", "c", "a", "t", " ">>
      [] s = "  " -> <<" ", " ">>
      [] s = "bark" -> <<"b", "a", "r", "k">>
      [] s = "zebra" -> <<"z", "e", "b", "r", "a">>
      [] s = "Category A" -> <<"C", "a", "t", "e", "g", "o", "r", "y", " ", "A">>
      [] s = "Dog Video" -> <<"D", "o", "g", " ", "V", "i", "d", "e", "o">>
      [] s = "Concatenate" ->
             <<"C", "o", "n", "c", "a", "t", "e", "n", "a", "t", "e">>
      [] s = "First" -> <<"F", "i", "r", "s", "t">>
      [] s = "Barks" -> <<"B", "a", "r", "k", "s">>

(* The lower-case letter of an upper-case one; every other character is     *)
(* itself.                                                                  *)
LowerOf(c) ==
    CASE c = "A" -> "a"
      [] c = "B" -> "b"
      [] c = "C" -> "c"
      [] c = "D" -> "d"
      [] c = "F" -> "f"
      [] c = "T" -> "t"
      [] c = "V" -> "v"
      [] OTHER -> c

(* String.prototype.toLowerCase, left out. *)
toLowerCaseNot(s) == s

(* String.prototype.toLowerCase *)
toLowerCase(s) == [k \in DOMAIN s |-> LowerOf(s[k])]

(* String.prototype.trim *)
RECURSIVE trim(_)
trim(s) ==
    IF s = << >> THEN s
    ELSE IF Head(s) = " " THEN trim(Tail(s))
    ELSE IF s[Len(s)] = " " THEN trim(SubSeq(s, 1, Len(s) - 1))
    ELSE s

(* String.prototype.includes *)
includes(s, t) ==
    \E k \in 0..(Len(s) - Len(t)) : SubSeq(s, k + 1, k + Len(t)) = t

(* The search filter, for every query and video: without a query, or with   *)
(* one of whitespace only, every record passes; otherwise those whose       *)
(* lower-cased title or description includes the trimmed, lower-cased query.*)
SearchFilter ==
    [q \in Queries \cup SearchQueries |->
        [v \in VideoIds |->
            IF q # "" /\ trim(Chars(q)) # << >>
            THEN LET trimmedQuery == toLowerCase(trim(Chars(q)))
                 IN  \/ includes(toLowerCase(Chars(Title(v))), trimmedQuery)
                     \/ includes(toLowerCase(Chars(Description(v))), trimmedQuery)
            ELSE TRUE]]

MatchesQuery(v, q) == SearchFilter[q][v]

Placeholder == "data:image/svg+xml;base64,PHN2Zy"

Undefined == "undefined"

(* What getThumbnailUrl resolves to for the thumbnail of v. *)
ResolvedThumbnailUrl(v) == "https://signed/" \o thumbnailFileId(v)

(* A listing: the rows with their thumbnailUrl, and as history the version  *)
(* of the store they were fetched at.                                       *)
Null == [ver |-> -1, rows |-> << >>, order |-> << >>]

IdleProc ==
    [op |-> "none", via |-> "none", q |-> "", arg |-> "", pc |-> "idle",
     level |-> "none", snap |-> Null, cur |-> 0, inner |-> "none",
     ok |-> FALSE, wrote |-> 0, startConfirmed |-> 0, src |-> "none",
     servedAfterClear |-> FALSE, servedAfterFacadeClear |-> FALSE,
     stale |-> FALSE, cleared |-> FALSE, freshAtCall |-> FALSE,
     fetches |-> 0, thumbs |-> 0, failed |-> FALSE, sort |-> "newest",
     order |-> << >>, filesFailed |-> FALSE, background |-> "none"]

Procs == DOMAIN proc

Mutations == {"create", "update", "delete"}

Max(a, b) == IF a > b THEN a ELSE b

(* The cached snapshot is fresh: there is one and now - insertedAt < TTL. *)
SnapshotFresh ==
    /\ videosCache # Null
    /\ now - cacheTimestamp < VIDEOS_CACHE_DURATION

isCacheValidNever == FALSE

(* isCacheValid *)
isCacheValid ==
    /\ videosCache # Null
    /\ cacheTimestamp > 0
    /\ (now - cacheTimestamp) < VIDEOS_CACHE_DURATION

(* convertSupabaseVideo over the rows fetched, filtered by the query, and   *)
(* the branch of the thumbnail loop that awaits nothing: a row without a    *)
(* thumbnail identifier gets the placeholder.                               *)
FetchedListing(q) ==
    [ver |-> store.ver,
     rows |-> [v \in {w \in store.rows : MatchesQuery(w, q)} |->
                 IF thumbnailFileId(v) = "" THEN Placeholder ELSE Undefined],
     order |-> SelectSeq(VideoOrder,
                         LAMBDA v : v \in store.rows /\ MatchesQuery(v, q))]

(* The thumbnail loop: the position in VideoOrder of the next row, from     *)
(* position k on, whose thumbnail must be resolved; 0 when there is none.   *)
RECURSIVE NextThumbnail(_, _)
NextThumbnail(rows, k) ==
    IF k > Len(VideoOrder) THEN 0
    ELSE IF VideoOrder[k] \in DOMAIN rows /\ rows[VideoOrder[k]] = Undefined
         THEN k
         ELSE NextThumbnail(rows, k + 1)

(* The store after the remote write of a mutation. *)
Written(op, v) ==
    [ver |-> store.ver + 1,
     cols |-> store.cols,
     rows |-> CASE op = "create" -> store.rows \cup {v}
                [] op = "update" -> store.rows
                [] op = "delete" -> store.rows \ {v}]

(* Whether the store accepts the write: an insert of a new row, an update   *)
(* of an existing one, any delete.                                          *)
WriteAccepted(op, v) ==
    CASE op = "create" -> v \notin store.rows
      [] op = "update" -> v \in store.rows
      [] op = "delete" -> TRUE

NoHist ==
    [confirmed |-> 0, clearSignal |-> FALSE, facadeClearSignal |-> FALSE,
     preFacadeClear |-> FALSE, last |-> IdleProc]

clearCacheNot ==
    [videosCache |-> videosCache, cacheTimestamp |-> cacheTimestamp]

(* clearCache of VideoServiceSupabase: the fields after it. *)
clearCache == [videosCache |-> Null, cacheTimestamp |-> 0]

CachesResultAlways(q) == TRUE

(* The test before the cache write of getAllVideos: !searchQuery *)
CachesResult(q) == q = ""

(* History of clearCache of VideoServiceSupabase *)
ClearedHist(h) == [h EXCEPT !.preFacadeClear = FALSE]

(* A getAllVideos call with query q has begun: it is the next call after    *)
(* any clearCachePublic.                                                    *)
EnteredHist(h, via, q) ==
    [h EXCEPT !.clearSignal = IF q = "" THEN FALSE ELSE @,
              !.facadeClearSignal = IF q = "" /\ via = "facade" THEN FALSE ELSE @]

(* Whether the call reports success to its caller when its getAllVideos     *)
(* has returned.                                                            *)
Success(r) ==
    CASE r.op = "list" -> TRUE
      [] r.level = "refresh" -> TRUE
      [] r.op = "delete" -> TRUE
      [] OTHER -> r.inner = "ok"

Returned(r, success) == [r EXCEPT !.pc = "done", !.ok = success]

(* A mutation of VideoServiceSupabase returns success: its write is         *)
(* confirmed.                                                               *)
ConfirmedHist(h, r) ==
    [h EXCEPT !.confirmed = IF r.level = "refresh" THEN Max(@, r.wrote) ELSE @]

(* The call goes on as r, the history as h. A call that returns or throws   *)
(* in this step frees its place; the history holds, for the state after the *)
(* step, what it returned.                                                  *)
Settle(p, r, h) ==
    IF r.pc \in {"done", "threw"}
    THEN /\ proc' = [proc EXCEPT ![p] = IdleProc]
         /\ hist' = [h EXCEPT !.last = r]
    ELSE /\ proc' = [proc EXCEPT ![p] = r]
         /\ hist' = [h EXCEPT !.last = IdleProc]

(* A call takes the first free place. *)
MayStart(p) ==
    /\ proc[p].pc = "idle"
    /\ \A d \in Procs : d < p => proc[d].pc # "idle"

(* getAllVideos returns its listing: to the page, or to the mutation whose  *)
(* forceRefreshCache called it.                                             *)
GetAllVideosReturns(r, h) ==
    IF r.level = "refresh" /\ r.via = "facade"
    THEN <<[r EXCEPT !.pc = "inner", !.inner = "ok"], ConfirmedHist(h, r)>>
    ELSE <<Returned([r EXCEPT !.order = sortVideos(r.snap.order, r.sort)],
                    Success(r)),
           ConfirmedHist(h, r)>>

(* getAllVideos up to its first await, on the cache as it is: the cached    *)
(* snapshot when there is no query and the cache is valid, else the request *)
(* for the rows.                                                            *)
EnterGetAllVideos(p, r, h) ==
    LET e == EnteredHist(h, r.via, r.q)
        hit == [r EXCEPT !.snap = videosCache, !.src = "cache",
                         !.freshAtCall = SnapshotFresh,
                         !.servedAfterClear = h.clearSignal,
                         !.servedAfterFacadeClear =
                             (r.via = "facade" /\ h.facadeClearSignal),
                         !.stale = h.preFacadeClear]
        out == GetAllVideosReturns(hit, e)
    IN  IF r.q = "" /\ isCacheValid
        THEN /\ videosCache' = StoredAfterSort(
                                   videosCache,
                                   sortVideos(videosCache.order, r.sort))
             /\ UNCHANGED cacheTimestamp
             /\ Settle(p, out[1], out[2])
        ELSE /\ UNCHANGED <<videosCache, cacheTimestamp>>
             /\ Settle(p, [r EXCEPT !.pc = "rows", !.src = "store",
                                    !.freshAtCall = (r.q = "" /\ SnapshotFresh),
                                    !.fetches = @ + 1], e)

(* The thumbnail loop is over: the cache is written when there is no query, *)
(* and getAllVideos returns.                                                *)
FinishGetAllVideos(p, r) ==
    LET h == IF CachesResult(r.q) THEN ClearedHist(hist) ELSE hist
        out == GetAllVideosReturns(r, h)
    IN  /\ IF CachesResult(r.q)
           THEN /\ videosCache' = StoredAfterSort(
                                      r.snap, sortVideos(r.snap.order, r.sort))
                /\ cacheTimestamp' = now
           ELSE UNCHANGED <<videosCache, cacheTimestamp>>
        /\ Settle(p, out[1], out[2])

(* The thumbnail loop from position k on. *)
ThumbnailLoop(p, r, k) ==
    LET n == NextThumbnail(r.snap.rows, k)
    IN  IF n = 0
        THEN FinishGetAllVideos(p, r)
        ELSE /\ Settle(p, [r EXCEPT !.pc = "thumb", !.cur = n,
                                    !.thumbs = @ + 1], hist)
             /\ UNCHANGED <<videosCache, cacheTimestamp>>

(* A getAllVideos whose catch block returned the empty listing instead of *)
(* rethrowing.                                                           *)
GetAllVideosSwallows(r) == Returned(r, r.op = "list")

(* getAllVideos throws: to the page, or into the catch of the mutation. *)
GetAllVideosThrows(r) ==
    CASE r.op = "list" -> [r EXCEPT !.pc = "threw"]
      [] r.level = "refresh" /\ r.via = "facade" ->
             [r EXCEPT !.pc = "inner", !.inner = "refreshfail"]
      [] r.level = "refresh" ->
             Returned([r EXCEPT !.inner = "refreshfail"], FALSE)
      [] OTHER -> Returned(r, FALSE)

(* getAllVideos(sortOption, searchQuery), of VideoServiceSupabase or of the *)
(* facade, up to its first await.                                          *)
GetAllVideos(p, via, q, sortOption) ==
    /\ MayStart(p)
    /\ LET r == [IdleProc EXCEPT
                   !.op = "list", !.via = via, !.q = q, !.level = "call",
                   !.sort = sortOption,
                   !.startConfirmed = hist.confirmed]
       IN  IF via = "facade" /\ ~useSupabaseForVideos
           THEN /\ Settle(p, [r EXCEPT !.pc = "threw"], hist)
                /\ UNCHANGED <<videosCache, cacheTimestamp>>
           ELSE EnterGetAllVideos(p, r, hist)
    /\ UNCHANGED <<now, wasabiVars, configVars, store, facadeVideosCache,
                   facadeCacheTimestamp>>

(* The page calls getAllVideos with the default sort option. *)
StartGetAllVideos(p, via, q) == GetAllVideos(p, via, q, "newest")

(* getVideoIds(sortOption) up to its await of supabase.getVideos. *)
GetVideoIds(p, sortOption) ==
    /\ MayStart(p)
    /\ Settle(p, [IdleProc EXCEPT !.op = "ids", !.via = "supabase",
                                  !.level = "call", !.sort = sortOption,
                                  !.pc = "idrows", !.fetches = 1], hist)
    /\ UNCHANGED <<now, wasabiVars, configVars, store, videosCache, cacheTimestamp,
                   facadeVideosCache, facadeCacheTimestamp>>

(* supabase.getVideos settles for getVideoIds: the ids of the sorted rows   *)
(* are returned, or the catch block returns the empty list.                 *)
VideoIdsSettle(p, outcome) ==
    /\ proc[p].pc = "idrows"
    /\ Settle(p, IF outcome = "ok"
                 THEN [proc[p] EXCEPT
                         !.pc = "done",
                         !.order = sortVideos(FetchedListing("").order,
                                              proc[p].sort)]
                 ELSE [proc[p] EXCEPT !.pc = "done", !.failed = TRUE,
                                      !.order = << >>],
              hist)
    /\ UNCHANGED <<now, wasabiVars, configVars, store, videosCache, cacheTimestamp,
                   facadeVideosCache, facadeCacheTimestamp>>

(* getVideo(videoId) up to its await of supabase.getVideo. *)
GetVideo(p, v) ==
    /\ MayStart(p)
    /\ Settle(p, [IdleProc EXCEPT !.op = "one", !.via = "supabase",
                                  !.level = "call", !.arg = v,
                                  !.pc = "onerow", !.fetches = 1], hist)
    /\ UNCHANGED <<now, wasabiVars, configVars, store, videosCache, cacheTimestamp,
                   facadeVideosCache, facadeCacheTimestamp>>

(* The thumbnailUrl of v once the background getThumbnailUrl of getVideo    *)
(* has settled, had it no callbacks: the field stays as it was.             *)
BackgroundWritesNothing(video, v, outcome) == video

(* The callbacks of the background getThumbnailUrl of getVideo: then writes *)
(* the URL (a cache hit gives the cached one), catch writes the placeholder.*)
BackgroundWrites(video, v, outcome) ==
    [video EXCEPT !.rows[v] = IF outcome = "threw" THEN Placeholder
                              ELSE ResolvedThumbnailUrl(v)]

(* The statement after the launch of the background call: the placeholder   *)
(* is set at once.                                                          *)
PlaceholderAssigned(video, v) == [video EXCEPT !.rows[v] = Placeholder]

(* supabase.getVideo settles for getVideo: the video is returned with the   *)
(* placeholder as its thumbnailUrl, null is returned when there is no such  *)
(* row, or the catch block returns null. A video with a thumbnail           *)
(* identifier is returned while getThumbnailUrl runs in the background:     *)
(* that call awaits checkInitialized before anything else, and its          *)
(* callbacks run only after this block has run to its end.                  *)
VideoSettles(p, outcome) ==
    /\ proc[p].pc = "onerow"
    /\ LET v == proc[p].arg
           video == [ver |-> store.ver, rows |-> [w \in {v} |-> Undefined],
                     order |-> <<v>>]
       IN  Settle(p, IF outcome = "ok"
                     THEN IF v \in store.rows
                          THEN IF thumbnailFileId(v) # ""
                               THEN [proc[p] EXCEPT
                                       !.pc = "background",
                                       !.background = "pending",
                                       !.snap = PlaceholderAssigned(video, v)]
                               ELSE [proc[p] EXCEPT
                                       !.pc = "done",
                                       !.snap = PlaceholderAssigned(video, v)]
                          ELSE [proc[p] EXCEPT !.pc = "done", !.snap = Null]
                     ELSE [proc[p] EXCEPT !.pc = "done", !.failed = TRUE,
                                          !.snap = Null],
                  hist)
    /\ UNCHANGED <<now, wasabiVars, configVars, store, videosCache, cacheTimestamp,
                   facadeVideosCache, facadeCacheTimestamp>>

(* The background getThumbnailUrl of getVideo settles, by a cache hit, with *)
(* a URL from the retry loop, or by throwing: its callback writes the       *)
(* thumbnailUrl of the record getVideo returned.                            *)
BackgroundOutcomes == {"hit", "url", "threw"}

ThumbnailBackgroundSettles(p, outcome) ==
    /\ proc[p].pc = "background"
    /\ Settle(p, [proc[p] EXCEPT
                    !.pc = "done",
                    !.background = outcome,
                    !.snap = BackgroundWrites(proc[p].snap, proc[p].arg, outcome)],
              hist)
    /\ UNCHANGED <<now, wasabiVars, configVars, store, videosCache, cacheTimestamp,
                   facadeVideosCache, facadeCacheTimestamp>>

(* The thumbnailUrl of v had the loop no catch: the field stays as         *)
(* convertSupabaseVideo left it.                                           *)
ThumbnailUrlUncaught(v, outcome) ==
    IF outcome = "url" THEN ResolvedThumbnailUrl(v) ELSE Undefined

(* The thumbnailUrl the loop of getAllVideos gives v once getThumbnailUrl   *)
(* has settled: its URL, or the placeholder set in the catch block.         *)
ThumbnailUrlAfter(v, outcome) ==
    IF outcome = "url" THEN ResolvedThumbnailUrl(v) ELSE Placeholder

(* supabase.getVideos settles: with the rows, or with an error. *)
RowsSettle(p, outcome) ==
    /\ proc[p].pc = "rows"
    /\ IF outcome = "error"
       THEN /\ Settle(p, GetAllVideosThrows([proc[p] EXCEPT !.failed = TRUE]),
                      hist)
            /\ UNCHANGED <<videosCache, cacheTimestamp>>
       ELSE ThumbnailLoop(p, [proc[p] EXCEPT !.snap = FetchedListing(proc[p].q)], 1)
    /\ UNCHANGED <<now, wasabiVars, configVars, store, facadeVideosCache,
                   facadeCacheTimestamp>>

(* wasabiService.getThumbnailUrl settles for the row the loop is at: with a *)
(* URL, or by throwing, and then the row gets the placeholder.              *)
ThumbnailSettles(p, outcome) ==
    /\ proc[p].pc = "thumb"
    /\ LET v == VideoOrder[proc[p].cur]
           url == ThumbnailUrlAfter(v, outcome)
           r == [proc[p] EXCEPT !.snap.rows[v] = url]
       IN  ThumbnailLoop(p, r, proc[p].cur + 1)
    /\ UNCHANGED <<now, wasabiVars, configVars, store, facadeVideosCache,
                   facadeCacheTimestamp>>

(* Writes to the store still to come from the mutations in flight. *)
WritesPending ==
    Cardinality({d \in Procs : /\ proc[d].op \in Mutations
                               /\ proc[d].via = "supabase" \/ proc[d].op # "delete"
                               /\ proc[d].pc \in {"write", "getvideo", "delfiles"}})

(* createVideo, updateVideo or deleteVideo of VideoServiceSupabase is       *)
(* called: the cache is cleared, then the call awaits the store.            *)
StartMutation(p, op, v) ==
    /\ MayStart(p)
    /\ store.ver + WritesPending < MaxWrites
    /\ videosCache' = clearCache.videosCache
    /\ cacheTimestamp' = clearCache.cacheTimestamp
    /\ Settle(p, [IdleProc EXCEPT
                     !.op = op, !.via = "supabase", !.arg = v,
                     !.level = "call",
                     !.cleared = (clearCache.videosCache = Null),
                     !.pc = IF op = "delete" THEN "getvideo" ELSE "write"],
              ClearedHist(hist))
    /\ UNCHANGED <<now, wasabiVars, configVars, store, facadeVideosCache,
                   facadeCacheTimestamp>>

(* createVideo, updateVideo or deleteVideo of the facade is called: the     *)
(* facade clears its own cache; createVideo and updateVideo then call       *)
(* VideoServiceSupabase, deleteVideo looks the video up.                    *)
StartFacadeMutation(p, op, v) ==
    /\ MayStart(p)
    /\ op # "delete" => store.ver + WritesPending < MaxWrites
    /\ facadeVideosCache' = Null
    /\ facadeCacheTimestamp' = 0
    /\ LET r == [IdleProc EXCEPT !.op = op, !.via = "facade", !.arg = v,
                                 !.level = "call"]
       IN  CASE op = "delete" ->
                  /\ Settle(p, [r EXCEPT !.pc = "getvideo"], hist)
                  /\ UNCHANGED <<videosCache, cacheTimestamp>>
             [] op # "delete" /\ useSupabaseForVideos ->
                  /\ videosCache' = clearCache.videosCache
                  /\ cacheTimestamp' = clearCache.cacheTimestamp
                  /\ Settle(p, [r EXCEPT
                                  !.pc = "write",
                                  !.cleared = (clearCache.videosCache = Null)],
                            ClearedHist(hist))
             [] OTHER ->
                  /\ Settle(p, Returned(r, FALSE), hist)
                  /\ UNCHANGED <<videosCache, cacheTimestamp>>
    /\ UNCHANGED <<now, wasabiVars, configVars, store>>

(* The files deleteVideo deletes for a video: its video file and, when it   *)
(* has one, its thumbnail.                                                  *)
FilesOf(v) == IF thumbnailFileId(v) = "" THEN 1 ELSE 2

(* What deleteVideo awaits once the files are dealt with: the delete in the *)
(* store, or for the facade the delete in the JSON database.                *)
DeleteAwait(r) == IF r.via = "facade" THEN "jsondelete" ELSE "write"

(* getVideo settles for deleteVideo: with the video, or with null when      *)
(* there is no such row or the lookup failed.                               *)
GetVideoSettles(p, outcome) ==
    /\ proc[p].pc = "getvideo"
    /\ Settle(p, IF outcome = "ok" /\ proc[p].arg \in store.rows
                 THEN [proc[p] EXCEPT !.pc = "delfiles",
                                      !.cur = FilesOf(proc[p].arg)]
                 ELSE [proc[p] EXCEPT !.pc = DeleteAwait(proc[p])],
              hist)
    /\ UNCHANGED <<now, wasabiVars, configVars, store, videosCache, cacheTimestamp,
                   facadeVideosCache, facadeCacheTimestamp>>

(* wasabiService.deleteFile settles: with true, or with false when the    *)
(* request failed or was refused. deleteVideo does not read the result.    *)
DeleteFileSettles(p, success) ==
    /\ proc[p].pc = "delfiles"
    /\ Settle(p, IF proc[p].cur > 1
                 THEN [proc[p] EXCEPT !.cur = proc[p].cur - 1,
                                      !.filesFailed = @ \/ ~success]
                 ELSE [proc[p] EXCEPT !.cur = 0,
                                      !.filesFailed = @ \/ ~success,
                                      !.pc = DeleteAwait(proc[p])],
              hist)
    /\ UNCHANGED <<now, wasabiVars, configVars, store, videosCache, cacheTimestamp,
                   facadeVideosCache, facadeCacheTimestamp>>

(* The write of a VideoServiceSupabase mutation settles. On an error the    *)
(* mutation returns null or false. Otherwise forceRefreshCache runs: the    *)
(* cache is cleared and getAllVideos requests the rows.                     *)
WriteSettles(p, outcome) ==
    /\ proc[p].pc = "write"
    /\ LET r == proc[p]
       IN  IF outcome = "ok" /\ WriteAccepted(r.op, r.arg)
           THEN /\ store' = Written(r.op, r.arg)
                /\ videosCache' = clearCache.videosCache
                /\ cacheTimestamp' = clearCache.cacheTimestamp
                /\ Settle(p, [r EXCEPT !.wrote = IF store' = store THEN 0
                                                  ELSE store'.ver,
                                        !.level = "refresh", !.cleared = TRUE,
                                        !.pc = "rows", !.src = "store",
                                        !.fetches = @ + 1],
                          EnteredHist(ClearedHist(hist), "supabase", ""))
           ELSE /\ Settle(p, IF r.via = "facade"
                             THEN [r EXCEPT !.pc = "inner",
                                            !.inner = "writefail"]
                             ELSE Returned([r EXCEPT !.inner = "writefail"],
                                           FALSE),
                          hist)
                /\ UNCHANGED <<store, videosCache, cacheTimestamp>>
    /\ UNCHANGED <<now, wasabiVars, configVars, facadeVideosCache, facadeCacheTimestamp>>

(* forceRefreshCache of the facade: it clears the facade's own cache and    *)
(* calls the facade's getAllVideos.                                         *)
FacadeForceRefreshCache(p, r) ==
    /\ facadeVideosCache' = Null
    /\ facadeCacheTimestamp' = 0
    /\ IF useSupabaseForVideos
       THEN EnterGetAllVideos(p, [r EXCEPT !.level = "facadeRefresh"], hist)
       ELSE /\ Settle(p, Returned(r, FALSE), hist)
            /\ UNCHANGED <<videosCache, cacheTimestamp>>

(* createVideo or updateVideo of VideoServiceSupabase has returned to the   *)
(* facade: updateVideo returns null on null, otherwise the facade forces a  *)
(* refresh.                                                                 *)
FacadeAfterInner(p) ==
    /\ proc[p].pc = "inner"
    /\ IF proc[p].op = "update" /\ proc[p].inner # "ok"
       THEN /\ Settle(p, Returned(proc[p], FALSE), hist)
            /\ UNCHANGED <<videosCache, cacheTimestamp,
                           facadeVideosCache, facadeCacheTimestamp>>
       ELSE FacadeForceRefreshCache(p, [proc[p] EXCEPT !.failed = FALSE])
    /\ UNCHANGED <<now, wasabiVars, configVars, store>>

(* jsonDatabaseService.deleteVideo settles for the facade's deleteVideo; on *)
(* success the facade forces a refresh.                                     *)
JsonDeleteSettles(p, success) ==
    /\ proc[p].pc = "jsondelete"
    /\ IF success
       THEN FacadeForceRefreshCache(p, proc[p])
       ELSE /\ Settle(p, Returned(proc[p], FALSE), hist)
            /\ UNCHANGED <<videosCache, cacheTimestamp,
                           facadeVideosCache, facadeCacheTimestamp>>
    /\ UNCHANGED <<now, wasabiVars, configVars, store>>

(* clearCachePublic of VideoServiceSupabase *)
ClearCachePublic ==
    /\ videosCache' = clearCache.videosCache
    /\ cacheTimestamp' = clearCache.cacheTimestamp
    /\ hist' = [ClearedHist(hist) EXCEPT !.clearSignal = TRUE,
                                         !.last = IdleProc]
    /\ UNCHANGED <<now, wasabiVars, configVars, store, facadeVideosCache,
                   facadeCacheTimestamp, proc>>

(* clearCachePublic of the facade *)
FacadeClearCachePublic ==
    /\ facadeVideosCache' = Null
    /\ facadeCacheTimestamp' = 0
    /\ hist' = [hist EXCEPT !.facadeClearSignal = TRUE,
                            !.preFacadeClear = (videosCache # Null),
                            !.last = IdleProc]
    /\ UNCHANGED <<now, wasabiVars, configVars, store, videosCache, cacheTimestamp, proc>>

(* Time passes. *)
CatalogTick ==
    /\ now < 1 + MaxCatalogTicks * CatalogTickStep
    /\ now' = now + CatalogTickStep
    /\ hist' = [hist EXCEPT !.last = IdleProc]
    /\ UNCHANGED <<wasabiVars, configVars, store, videosCache, cacheTimestamp,
                   facadeVideosCache, facadeCacheTimestamp, proc>>

-----------------------------------------------------------------------------
(* The site configuration service. *)

(* A configuration: the version of the site_config row and of the           *)
(* crypto_wallets table it was converted from; null is NoSiteConfig.        *)
NoSiteConfig == [row |-> -1, wallets |-> -1]

IdleConfigProc ==
    [op |-> "none", pc |-> "idle", row |-> -1, insert |-> FALSE,
     result |-> NoSiteConfig, wrote |-> FALSE, left |-> NoSiteConfig]

ConfigCalls == 1..ConfigProcs

(* Nothing cached, nothing in flight; the store holds a site_config row. *)
SiteAtRest ==
    [exists |-> TRUE, row |-> 0, wallets |-> 0,
     configCache |-> NoSiteConfig, cacheTimestamp |-> 0,
     proc |-> [p \in ConfigCalls |-> IdleConfigProc]]

(* SiteConfigServiceSupabase.isCacheValid *)
configIsCacheValid ==
    /\ site.configCache # NoSiteConfig
    /\ site.cacheTimestamp > 0
    /\ (now - site.cacheTimestamp) < CONFIG_CACHE_DURATION

(* SiteConfigServiceSupabase.clearCache *)
configClearCache(s) ==
    [s EXCEPT !.configCache = NoSiteConfig, !.cacheTimestamp = 0]

(* The call p returns result; as history, what configCache holds then. *)
ConfigReturns(s, p, result) ==
    [s EXCEPT !.proc[p].pc = "done",
              !.proc[p].result = result,
              !.proc[p].left = s.configCache]

(* getSiteConfig fails or finds no row: it returns null, and so does the    *)
(* updateSiteConfig that called it.                                         *)
ConfigReturnsNull(s, p) == ConfigReturns(s, p, NoSiteConfig)

ConfigAtRest(p) == site.proc[p].pc \in {"idle", "done"}

(* getSiteConfig up to its first await: a valid cache is returned. *)
GetSiteConfig(p) ==
    /\ ConfigAtRest(p)
    /\ LET s == [site EXCEPT !.proc[p] = [IdleConfigProc EXCEPT !.op = "get"]]
       IN  site' = IF configIsCacheValid
                   THEN ConfigReturns(s, p, site.configCache)
                   ELSE [s EXCEPT !.proc[p].pc = "getSiteConfig"]
    /\ UNCHANGED <<now, wasabiVars, catalogVars>>

(* updateSiteConfig up to its first await: clearCache, then getSiteConfig   *)
(* finds no valid cache and goes to the store. insert: whether the merged   *)
(* configuration holds valid wallets.                                       *)
UpdateSiteConfig(p, insert) ==
    /\ ConfigAtRest(p)
    /\ site.row < MaxConfigWrites
    /\ site' = [configClearCache(site) EXCEPT
                   !.proc[p] = [IdleConfigProc EXCEPT !.op = "update",
                                                      !.pc = "getSiteConfig",
                                                      !.insert = insert]]
    /\ UNCHANGED <<now, wasabiVars, catalogVars>>

(* supabase.getSiteConfig settles: with the row, with no row (PGRST116),    *)
(* or with an error that getSiteConfig catches.                             *)
SiteConfigRowSettles(p, outcome) ==
    /\ site.proc[p].pc = "getSiteConfig"
    /\ outcome = "row" => site.exists
    /\ outcome = "absent" => ~site.exists
    /\ site' = IF outcome = "row"
               THEN [site EXCEPT !.proc[p].pc = "getCryptoWallets",
                                 !.proc[p].row = site.row]
               ELSE ConfigReturnsNull(site, p)
    /\ UNCHANGED <<now, wasabiVars, catalogVars>>

(* supabase.getCryptoWallets settles: getSiteConfig converts, stores the    *)
(* configuration in the cache and returns it; updateSiteConfig goes on to   *)
(* the upsert.                                                              *)
CryptoWalletsSettle(p, outcome) ==
    /\ site.proc[p].pc = "getCryptoWallets"
    /\ site' =
          IF outcome = "ok"
          THEN LET configData == [row |-> site.proc[p].row, wallets |-> site.wallets]
                   s == [site EXCEPT !.configCache = configData,
                                     !.cacheTimestamp = now]
               IN  IF site.proc[p].op = "get"
                   THEN ConfigReturns(s, p, configData)
                   ELSE [s EXCEPT !.proc[p].pc = "updateSiteConfig"]
          ELSE ConfigReturnsNull(site, p)
    /\ UNCHANGED <<now, wasabiVars, catalogVars>>

(* supabase.updateSiteConfig settles: the row is written, or the error is   *)
(* thrown and caught by updateSiteConfig, which returns null.               *)
UpsertSettles(p, outcome) ==
    /\ site.proc[p].pc = "updateSiteConfig"
    /\ site' =
          IF outcome = "ok"
          THEN [site EXCEPT !.row = @ + 1,
                            !.proc[p].wrote = TRUE,
                            !.proc[p].pc = "deleteWallets"]
          ELSE ConfigReturnsNull(site, p)
    /\ UNCHANGED <<now, wasabiVars, catalogVars>>

(* The end of updateSiteConfig after updateCryptoWallets: clearCache, and   *)
(* the merged configuration is returned.                                    *)
ConfigUpdated(s, p) ==
    ConfigReturns(configClearCache(s), p,
                  [row |-> s.row, wallets |-> s.wallets])

(* updateCryptoWallets, the delete of the existing wallets settles. *)
DeleteWalletsSettles(p, outcome) ==
    /\ site.proc[p].pc = "deleteWallets"
    /\ site' =
          IF outcome = "ok"
          THEN LET s == [site EXCEPT !.wallets = @ + 1]
               IN  IF site.proc[p].insert
                   THEN [s EXCEPT !.proc[p].pc = "insertWallets"]
                   ELSE ConfigUpdated(s, p)
          ELSE ConfigReturnsNull(site, p)
    /\ UNCHANGED <<now, wasabiVars, catalogVars>>

(* updateCryptoWallets, the insert of the new wallets settles. *)
InsertWalletsSettles(p, outcome) ==
    /\ site.proc[p].pc = "insertWallets"
    /\ site' =
          IF outcome = "ok"
          THEN ConfigUpdated([site EXCEPT !.wallets = @ + 1], p)
          ELSE ConfigReturnsNull(site, p)
    /\ UNCHANGED <<now, wasabiVars, catalogVars>>

(* The clock of the configuration specification, in steps of its TTL. *)
ConfigTick ==
    /\ now < 1 + MaxConfigTicks * CONFIG_CACHE_DURATION
    /\ now' = now + CONFIG_CACHE_DURATION
    /\ UNCHANGED <<wasabiVars, catalogVars, configVars>>

------------------------------------------------------------------------------
(* Specifications. *)

EmptyCache == [i \in {} |-> [url |-> NoUrl, timestamp |-> 0, by |-> 0]]

(* The catalog at rest, for the specifications of the signing calls. *)
CatalogAtRest ==
    /\ store = InitialStore
    /\ videosCache = Null
    /\ cacheTimestamp = 0
    /\ facadeVideosCache = Null
    /\ facadeCacheTimestamp = 0
    /\ proc = << >>
    /\ hist = NoHist
    /\ site = SiteAtRest

(* Spec: the asset cache over time. getThumbnailUrl is called NumCalls      *)
(* times; each signing request succeeds, with one of two signatures, or     *)
(* fails for good.                                                          *)
Init ==
    /\ now = 1
    /\ isInitialized = FALSE
    /\ config = NoConfig
    /\ thumbnailCache = EmptyCache
    /\ activeRequests = {}
    /\ endpoint = [n \in 1..maxRetries |-> {"good", "TypeError"}]
    /\ signatures = {"s1", "s2"}
    /\ call = [c \in 1..NumCalls |-> IdleCall]
    /\ CatalogAtRest

Next ==
    \/ \E c \in Calls : StartThumbnailUrl(c, CacheIds)
    \/ \E c \in Calls : SiteConfigSettles(c)
    \/ \E c \in Calls : LookupThumbnail(c)
    \/ \E c \in Calls : TakeSlot(c)
    \/ \E c \in Calls : FetchSettles(c)
    \/ \E c \in Calls : JsonSettles(c)
    \/ Tick

Spec == Init /\ [][Next]_vars

(* SpecRetry: the retry loop. The endpoint follows a plan: one outcome per  *)
(* attempt number, any of them.                                             *)
InitRetry ==
    /\ now = 1
    /\ isInitialized = FALSE
    /\ config = NoConfig
    /\ thumbnailCache = EmptyCache
    /\ activeRequests = {}
    /\ endpoint \in [1..maxRetries -> {{o} : o \in Outcomes}]
    /\ signatures = {"s1"}
    /\ call = [c \in 1..RetryCalls |-> IdleCall]
    /\ CatalogAtRest

NextRetry ==
    \/ \E c \in Calls : StartThumbnailUrl(c, Ids)
    \/ \E c \in Calls : StartFileUrl(c, Ids)
    \/ \E c \in Calls : SiteConfigSettles(c)
    \/ \E c \in Calls : LookupThumbnail(c)
    \/ \E c \in Calls : TakeSlot(c)
    \/ \E c \in Calls : FirstFileRequest(c)
    \/ \E c \in Calls : FetchSettles(c)
    \/ \E c \in Calls : JsonSettles(c)
    \/ \E c \in Calls : BackoffEnds(c)

SpecRetry == InitRetry /\ [][NextRetry]_vars

(* SpecBurst: getThumbnailUrl is called BurstCalls times in one tick, for   *)
(* distinct uncached identifiers, on an initialized service whose endpoint  *)
(* answers every request.                                                   *)
InitBurst ==
    /\ now = 1
    /\ isInitialized = TRUE
    /\ config = SiteWasabiConfig
    /\ thumbnailCache = EmptyCache
    /\ activeRequests = {}
    /\ endpoint = [n \in 1..maxRetries |-> {"good"}]
    /\ signatures = {"s1"}
    /\ call = [c \in 1..BurstCalls |->
                 [IdleCall EXCEPT !.pc = "init", !.kind = "thumb",
                                  !.id = BurstId(c)]]
    /\ CatalogAtRest

NextBurst ==
    \/ \E c \in Calls : LookupThumbnail(c)
    \/ \E c \in Calls : PollSlot(c)
    \/ \E c \in Calls : TakeSlot(c)
    \/ \E c \in Calls : FetchSettles(c)
    \/ \E c \in Calls : JsonSettles(c)

SpecBurst == InitBurst /\ [][NextBurst]_vars

(* SpecFile: getFileUrl is called NumCalls times for one identifier, at one *)
(* instant; each signing request succeeds or fails for good.                *)
NextFile ==
    \/ \E c \in Calls : StartFileUrl(c, CacheIds)
    \/ \E c \in Calls : SiteConfigSettles(c)
    \/ \E c \in Calls : FirstFileRequest(c)
    \/ \E c \in Calls : FetchSettles(c)
    \/ \E c \in Calls : JsonSettles(c)

SpecFile == Init /\ [][NextFile]_vars

(* SpecCatalog: the listing cache under page reads, mutations and           *)
(* invalidations. The signing service is at rest; getThumbnailUrl is the    *)
(* await of ThumbnailSettles and resolves here, as every deleteFile does;   *)
(* SpecSearch and SpecDelete have them fail too.                            *)
InitCatalog ==
    /\ now = 1
    /\ isInitialized = TRUE
    /\ config = SiteWasabiConfig
    /\ thumbnailCache = EmptyCache
    /\ activeRequests = {}
    /\ endpoint = [n \in 1..maxRetries |-> {"good"}]
    /\ signatures = {"s1"}
    /\ call = << >>
    /\ store = InitialStore
    /\ videosCache = Null
    /\ cacheTimestamp = 0
    /\ facadeVideosCache = Null
    /\ facadeCacheTimestamp = 0
    /\ proc = [p \in 1..NumProcs |-> IdleProc]
    /\ hist = NoHist
    /\ site = SiteAtRest

NextCatalog ==
    \/ \E p \in Procs, via \in {"supabase", "facade"}, q \in Queries :
          StartGetAllVideos(p, via, q)
    \/ \E p \in Procs, o \in {"ok", "error"} : RowsSettle(p, o)
    \/ \E p \in Procs : ThumbnailSettles(p, "url")
    \/ \E p \in Procs, op \in Mutations, v \in MutatedIds : StartMutation(p, op, v)
    \/ \E p \in Procs, op \in Mutations, v \in MutatedIds :
          StartFacadeMutation(p, op, v)
    \/ \E p \in Procs, o \in {"ok", "error"} : GetVideoSettles(p, o)
    \/ \E p \in Procs : DeleteFileSettles(p, TRUE)
    \/ \E p \in Procs, o \in {"ok", "error"} : WriteSettles(p, o)
    \/ \E p \in Procs : FacadeAfterInner(p)
    \/ \E p \in Procs, b \in BOOLEAN : JsonDeleteSettles(p, b)
    \/ ClearCachePublic
    \/ FacadeClearCachePublic
    \/ CatalogTick

SpecCatalog == InitCatalog /\ [][NextCatalog]_vars

(* SpecSort: getAllVideos without a query is called again and again, with  *)
(* any sort option, on a store of three videos whose columns are any of    *)
(* SortInputs.                                                             *)
InitSort ==
    /\ now = 1
    /\ isInitialized = TRUE
    /\ config = SiteWasabiConfig
    /\ thumbnailCache = EmptyCache
    /\ activeRequests = {}
    /\ endpoint = [n \in 1..maxRetries |-> {"good"}]
    /\ signatures = {"s1"}
    /\ call = << >>
    /\ store \in {[ver |-> 0, rows |-> VideoIds, cols |-> a] : a \in SortInputs}
    /\ videosCache = Null
    /\ cacheTimestamp = 0
    /\ facadeVideosCache = Null
    /\ facadeCacheTimestamp = 0
    /\ proc = [p \in 1..SortProcs |-> IdleProc]
    /\ hist = NoHist
    /\ site = SiteAtRest

NextSort ==
    \/ \E p \in Procs, sortOption \in SortOptions :
          GetAllVideos(p, "supabase", "", sortOption)
    \/ \E p \in Procs, o \in {"ok", "error"} : RowsSettle(p, o)
    \/ \E p \in Procs, o \in {"url", "threw"} : ThumbnailSettles(p, o)

SpecSort == InitSort /\ [][NextSort]_vars

(* SpecDuration: getAllVideos sorts by duration, on a store of three videos *)
(* whose durations are any of Durations.                                    *)
InitDuration ==
    /\ now = 1
    /\ isInitialized = TRUE
    /\ config = SiteWasabiConfig
    /\ thumbnailCache = EmptyCache
    /\ activeRequests = {}
    /\ endpoint = [n \in 1..maxRetries |-> {"good"}]
    /\ signatures = {"s1"}
    /\ call = << >>
    /\ store \in {[ver |-> 0, rows |-> VideoIds, cols |-> a] : a \in DurationInputs}
    /\ videosCache = Null
    /\ cacheTimestamp = 0
    /\ facadeVideosCache = Null
    /\ facadeCacheTimestamp = 0
    /\ proc = [p \in 1..SortProcs |-> IdleProc]
    /\ hist = NoHist
    /\ site = SiteAtRest

NextDuration ==
    \/ \E p \in Procs : GetAllVideos(p, "supabase", "", "duration_desc")
    \/ \E p \in Procs, o \in {"ok", "error"} : RowsSettle(p, o)
    \/ \E p \in Procs, o \in {"url", "threw"} : ThumbnailSettles(p, o)

SpecDuration == InitDuration /\ [][NextDuration]_vars

(* SpecSearch: getAllVideos with each of SearchQueries, on every store of   *)
(* the three titled videos.                                                 *)
InitSearch ==
    /\ now = 1
    /\ isInitialized = TRUE
    /\ config = SiteWasabiConfig
    /\ thumbnailCache = EmptyCache
    /\ activeRequests = {}
    /\ endpoint = [n \in 1..maxRetries |-> {"good"}]
    /\ signatures = {"s1"}
    /\ call = << >>
    /\ store \in {[ver |-> 0, rows |-> r, cols |-> [v \in VideoIds |-> PlainColumns]] :
                      r \in SUBSET VideoIds}
    /\ videosCache = Null
    /\ cacheTimestamp = 0
    /\ facadeVideosCache = Null
    /\ facadeCacheTimestamp = 0
    /\ proc = [p \in 1..SortProcs |-> IdleProc]
    /\ hist = NoHist
    /\ site = SiteAtRest

NextSearch ==
    \/ \E p \in Procs, q \in SearchQueries : StartGetAllVideos(p, "supabase", q)
    \/ \E p \in Procs, o \in {"ok", "error"} : RowsSettle(p, o)
    \/ \E p \in Procs, o \in {"url", "threw"} : ThumbnailSettles(p, o)

SpecSearch == InitSearch /\ [][NextSearch]_vars

(* SpecConfig: concurrent getSiteConfig and updateSiteConfig calls, every   *)
(* request to the store succeeding or failing.                              *)
InitConfig ==
    /\ now = 1
    /\ isInitialized = TRUE
    /\ config = SiteWasabiConfig
    /\ thumbnailCache = EmptyCache
    /\ activeRequests = {}
    /\ endpoint = [n \in 1..maxRetries |-> {"good"}]
    /\ signatures = {"s1"}
    /\ call = << >>
    /\ store = InitialStore
    /\ videosCache = Null
    /\ cacheTimestamp = 0
    /\ facadeVideosCache = Null
    /\ facadeCacheTimestamp = 0
    /\ proc = << >>
    /\ hist = NoHist
    /\ site \in {[SiteAtRest EXCEPT !.exists = e] : e \in BOOLEAN}

ConfigOutcomes == {"ok", "error"}

NextConfig ==
    \/ \E p \in ConfigCalls : GetSiteConfig(p)
    \/ \E p \in ConfigCalls, insert \in BOOLEAN : UpdateSiteConfig(p, insert)
    \/ \E p \in ConfigCalls, o \in {"row", "absent", "error"} :
           SiteConfigRowSettles(p, o)
    \/ \E p \in ConfigCalls, o \in ConfigOutcomes : CryptoWalletsSettle(p, o)
    \/ \E p \in ConfigCalls, o \in ConfigOutcomes : UpsertSettles(p, o)
    \/ \E p \in ConfigCalls, o \in ConfigOutcomes : DeleteWalletsSettles(p, o)
    \/ \E p \in ConfigCalls, o \in ConfigOutcomes : InsertWalletsSettles(p, o)
    \/ ConfigTick

SpecConfig == InitConfig /\ [][NextConfig]_vars

(* SpecDelete: deleteVideo of VideoServiceSupabase is called on a store     *)
(* that holds any of the videos the mutations are about, while the page     *)
(* lists the videos; every request awaited succeeds or fails.               *)
InitDelete ==
    /\ now = 1
    /\ isInitialized = TRUE
    /\ config = SiteWasabiConfig
    /\ thumbnailCache = EmptyCache
    /\ activeRequests = {}
    /\ endpoint = [n \in 1..maxRetries |-> {"good"}]
    /\ signatures = {"s1"}
    /\ call = << >>
    /\ store \in {[InitialStore EXCEPT !.rows = rows] : rows \in SUBSET MutatedIds}
    /\ videosCache = Null
    /\ cacheTimestamp = 0
    /\ facadeVideosCache = Null
    /\ facadeCacheTimestamp = 0
    /\ proc = [p \in 1..NumProcs |-> IdleProc]
    /\ hist = NoHist
    /\ site = SiteAtRest

NextDelete ==
    \/ \E p \in Procs, v \in MutatedIds : StartMutation(p, "delete", v)
    \/ \E p \in Procs : StartGetAllVideos(p, "supabase", "")
    \/ \E p \in Procs, o \in {"ok", "error"} : GetVideoSettles(p, o)
    \/ \E p \in Procs, b \in BOOLEAN : DeleteFileSettles(p, b)
    \/ \E p \in Procs, o \in {"ok", "error"} : WriteSettles(p, o)
    \/ \E p \in Procs, o \in {"ok", "error"} : RowsSettle(p, o)
    \/ \E p \in Procs, o \in {"url", "threw"} : ThumbnailSettles(p, o)

SpecDelete == InitDelete /\ [][NextDelete]_vars

(* SpecReads: getVideoIds and getVideo are called on a store that holds any *)
(* of the videos, none included; each read of the store succeeds or fails.  *)
InitReads ==
    /\ now = 1
    /\ isInitialized = TRUE
    /\ config = SiteWasabiConfig
    /\ thumbnailCache = EmptyCache
    /\ activeRequests = {}
    /\ endpoint = [n \in 1..maxRetries |-> {"good"}]
    /\ signatures = {"s1"}
    /\ call = << >>
    /\ store \in {[InitialStore EXCEPT !.rows = rows] : rows \in SUBSET VideoIds}
    /\ videosCache = Null
    /\ cacheTimestamp = 0
    /\ facadeVideosCache = Null
    /\ facadeCacheTimestamp = 0
    /\ proc = [p \in 1..NumProcs |-> IdleProc]
    /\ hist = NoHist
    /\ site = SiteAtRest

NextReads ==
    \/ \E p \in Procs, sortOption \in SortOptions : GetVideoIds(p, sortOption)
    \/ \E p \in Procs, o \in {"ok", "error"} : VideoIdsSettle(p, o)
    \/ \E p \in Procs, v \in VideoIds : GetVideo(p, v)
    \/ \E p \in Procs, o \in {"ok", "error"} : VideoSettles(p, o)
    \/ \E p \in Procs, o \in BackgroundOutcomes : ThumbnailBackgroundSettles(p, o)

SpecReads == InitReads /\ [][NextReads]_vars

-----------------------------------------------------------------------------
(* Properties of the signing calls. *)

Finished(c) == call[c].pc = "done"

(* The call went to the endpoint: it was not served from the cache. *)
Resolved(c) == Finished(c) /\ call[c].served = 0

IsSigned(c) == \E s \in signatures : call[c].result = SignedUrl(call[c].id, s)

IsFallback(c) ==
    \E cfg \in {defaultWasabiConfig, SiteWasabiConfig} :
        call[c].result = FallbackUrl(call[c].kind, call[c].id, cfg)

(* The failures after which the code tries again. *)
RetriedFailures == {"non2xx", "nosuccess", "AbortError", "ECONNRESET", "ETIMEDOUT"}

(* The thrown errors that end the loop at once. *)
FatalFailures == {"TypeError", "badjson"}

PlanFailsTwiceThenSucceeds(kinds) ==
    /\ endpoint[1] \subseteq kinds
    /\ endpoint[2] \subseteq kinds
    /\ endpoint[3] = {"good"}

(* C1: under a burst of more than 5 getThumbnailUrl calls for uncached      *)
(* identifiers, at most MAX_CONCURRENT_REQUESTS (5) signing requests are in *)
(* flight at the same time.                                                 *)
C1_AtMostFiveInFlight ==
    Cardinality({c \in Calls : call[c].pc = "fetch"}) <= MAX_CONCURRENT_REQUESTS

C4_AllFailGivesFallback ==
    \A c \in Calls :
        /\ call[c].reqs <= 3
        /\ call[c].pc \in {"idle", "siteconfig", "init", "poll", "slot",
                           "fetch", "json", "backoff", "done"}
        /\ Finished(c) => call[c].result # NoUrl
        /\ (Resolved(c) /\ \A k \in 1..Len(call[c].log) : call[c].log[k] # "good")
              => IsFallback(c) /\ call[c].reqs >= 1

C4_Witness ==
    \E c \in Calls :
        /\ Resolved(c)
        /\ call[c].reqs = 3
        /\ call[c].log = <<"non2xx", "AbortError", "nosuccess">>
        /\ IsFallback(c)

C10_RequestsHoldSlot ==
    \A c \in Calls : call[c].pc = "fetch" => call[c].id \in activeRequests

(* The call that stored the entry call a returned. *)
Origin(a) == IF call[a].served = 0 THEN a ELSE call[a].served

(* C6, as claimed: a getThumbnailUrl call made after an earlier call for    *)
(* the same identifier completed, and looking the identifier up less than   *)
(* 30 minutes after that call's entry was stored, returns the identical URL *)
(* the earlier call returned and issues no signing request.                 *)
C6_SecondCallReturnsFirstUrl ==
    \A b \in Calls : Finished(b) =>
        \A a \in call[b].fresh :
            call[b].result = call[a].result /\ call[b].reqs = 0

(* C6, amended: such a second call issues no signing request and returns    *)
(* the URL of the entry cached at its lookup: the identical URL the first   *)
(* call returned, unless another resolution of the identifier, in flight    *)
(* beside the first, stored its own result after it.                        *)
C6_SecondCallServedFromCache ==
    \A b \in Calls : (Finished(b) /\ call[b].fresh # {}) =>
        /\ call[b].reqs = 0
        /\ call[b].served # 0
        /\ call[b].result = call[call[b].served].result
        /\ \A a \in call[b].fresh :
              Origin(a) = call[b].served => call[b].result = call[a].result

C6_Witness ==
    \E b \in Calls : \E a \in call[b].fresh :
        /\ Finished(b)
        /\ Origin(a) = a
        /\ call[b].served = a
        /\ IsFallback(a)
        /\ call[b].result = call[a].result
        /\ call[b].reqs = 0
        /\ now > call[a].entryAt

(* The call is between addActiveRequest and its finally block. *)
InRetryLoop(c) ==
    /\ call[c].kind = "thumb"
    /\ call[c].pc \in {"fetch", "json", "backoff"}

(* C11: every getThumbnailUrl call that added itself to activeRequests has  *)
(* removed itself exactly once when it has returned, whether with a signed  *)
(* URL or with the fallback, and activeRequests is empty whenever no call   *)
(* is between its addActiveRequest and its return.                          *)
C11_SlotReleasedOnEveryExit ==
    /\ \A c \in Calls :
          /\ call[c].released <= 1
          /\ (Finished(c) /\ call[c].kind = "thumb" /\ call[c].reqs > 0)
                => call[c].released = 1
          /\ ~Finished(c) => call[c].released = 0
    /\ (\A c \in Calls : ~InRetryLoop(c)) => activeRequests = {}

C11_Witness ==
    /\ activeRequests = {}
    /\ \E c \in Calls :
          /\ Finished(c)
          /\ call[c].kind = "thumb"
          /\ call[c].log = <<"ECONNRESET", "badjson">>
          /\ IsFallback(c)
          /\ call[c].released = 1

(* C12: activeRequests never holds more than MAX_CONCURRENT_REQUESTS (5)    *)
(* identifiers.                                                             *)
C12_ActiveRequestsBounded ==
    Cardinality(activeRequests) <= MAX_CONCURRENT_REQUESTS

(* C13: an entry of thumbnailCache is served only when it is younger than   *)
(* the TTL at the lookup: now - timestamp < CACHE_DURATION.                 *)
C13_ServedOnlyWhenYoungerThanTTL ==
    \A c \in Calls :
        (Finished(c) /\ call[c].served # 0)
            => call[c].lookupAt - call[c].entryAt < CACHE_DURATION

(* C14: of the getFileUrl calls for one identifier, one made after another  *)
(* has completed, within the TTL, issues no signing request.                *)
C14_SecondFileCallIssuesNoRequest ==
    \A c \in Calls :
        (Finished(c) /\ call[c].kind = "file" /\ call[c].prior # {})
            => call[c].reqs = 0

-----------------------------------------------------------------------------
(* Properties of the catalog. *)

(* The call that returned last is a getAllVideos with an empty query. *)
Listed ==
    /\ hist.last.op = "list"
    /\ hist.last.q = ""
    /\ hist.last.pc = "done"

(* C2: once createVideo, updateVideo or deleteVideo of VideoServiceSupabase *)
(* has returned success, every getAllVideos call with an empty query        *)
(* started afterwards returns a listing that reflects the mutation: its     *)
(* rows are those of the store at or after the confirmed write.             *)
C2_ReadsAfterConfirmedWriteSeeIt ==
    Listed => hist.last.snap.ver >= hist.last.startConfirmed

(* C7: after clearCachePublic of VideoServiceSupabase, the next             *)
(* getAllVideos call with an empty query fetches the rows from the store    *)
(* instead of serving a cached snapshot: no such call is served from the    *)
(* cache.                                                                   *)
C7_NextCallAfterClearFetches ==
    Listed => ~hist.last.servedAfterClear

(* C8: after clearCachePublic of the facade, the next getAllVideos call of  *)
(* the facade with an empty query fetches from the store: it is not served  *)
(* a snapshot that was cached before the invalidation.                      *)
C8_NextCallAfterFacadeClearFetches ==
    Listed /\ hist.last.via = "facade"
        => ~(hist.last.servedAfterFacadeClear /\ hist.last.stale)

(* C9: every mutation entry point, of VideoServiceSupabase and of the       *)
(* facade, has cleared VideoServiceSupabase.videosCache at least once when  *)
(* it returns.                                                              *)
C9_MutationsClearListingCache ==
    hist.last.op \in Mutations /\ hist.last.pc = "done" => hist.last.cleared

(* The call that returned last is a getAllVideos that returned a listing. *)
ListReturned == hist.last.op = "list" /\ hist.last.pc = "done"

(* C15: a getAllVideos call with an empty query, made while the cached      *)
(* snapshot is fresh, returns the snapshot's records and has neither called *)
(* supabase.getVideos nor getThumbnailUrl.                                  *)
C15_FreshSnapshotServedWithoutFetch ==
    (ListReturned /\ hist.last.q = "" /\ hist.last.freshAtCall)
        => /\ hist.last.src = "cache"
           /\ hist.last.snap = videosCache
           /\ hist.last.fetches = 0
           /\ hist.last.thumbs = 0

C15_Witness ==
    /\ ListReturned
    /\ hist.last.q = ""
    /\ hist.last.freshAtCall
    /\ hist.last.snap = videosCache
    /\ DOMAIN hist.last.snap.rows = {"v1", "v2"}
    /\ hist.last.fetches = 0

(* C16: a getAllVideos call with a non-empty query always fetches from the  *)
(* store, also when a fresh snapshot is cached, and no step of it changes   *)
(* videosCache or cacheTimestamp.                                           *)
C16_SearchNeverTouchesCache ==
    /\ [](ListReturned /\ hist.last.q # ""
            => hist.last.src = "store" /\ hist.last.fetches = 1)
    /\ [][\A p \in Procs :
            ((proc[p].q # "" \/ proc'[p].q # "") /\ proc'[p] # proc[p])
                => UNCHANGED <<videosCache, cacheTimestamp>>]_vars

C16_Witness ==
    /\ ListReturned
    /\ hist.last.q # ""
    /\ hist.last.src = "store"
    /\ hist.last.fetches = 1
    /\ SnapshotFresh
    /\ videosCache.rows # hist.last.snap.rows

(* C18: when supabase.getVideos fails during a getAllVideos call, the call  *)
(* throws to its caller, and the step in which it fails leaves videosCache  *)
(* and cacheTimestamp as they were.                                         *)
C18_StoreFailurePropagatesCacheKept ==
    /\ [](hist.last.op = "list" /\ hist.last.failed => hist.last.pc = "threw")
    /\ [][\A p \in Procs :
            (proc[p].pc = "rows" /\ proc'[p] # proc[p]
               /\ (hist'.last.failed \/ proc'[p].failed))
                => UNCHANGED <<videosCache, cacheTimestamp>>]_vars

C18_Witness ==
    /\ hist.last.op = "list"
    /\ hist.last.q = ""
    /\ hist.last.pc = "threw"
    /\ hist.last.failed
    /\ videosCache # Null
    /\ cacheTimestamp > 0

(* C20: a createVideo, updateVideo or deleteVideo of VideoServiceSupabase   *)
(* whose remote write failed returns failure, and clearCache has emptied    *)
(* videosCache during the call: a snapshot stored before the mutation       *)
(* started is gone.                                                         *)
C20_FailedWriteStillInvalidates ==
    (hist.last.op \in Mutations /\ hist.last.pc = "done"
        /\ hist.last.inner = "writefail")
        => ~hist.last.ok /\ hist.last.cleared

C20_Witness ==
    /\ hist.last.op = "update"
    /\ hist.last.via = "supabase"
    /\ hist.last.pc = "done"
    /\ hist.last.inner = "writefail"
    /\ ~hist.last.ok
    /\ hist.last.cleared
    /\ videosCache = Null

(* The total seconds of a duration: MM*60+SS, HH*3600+MM*60+SS, and 0 when *)
(* the duration has another number of parts or a part that is no number.   *)
TotalSeconds(parts) ==
    IF \E k \in DOMAIN parts : Number(parts[k]).nan THEN 0
    ELSE CASE Len(parts) = 2 ->
                  Number(parts[1]).val * 60 + Number(parts[2]).val
           [] Len(parts) = 3 ->
                  Number(parts[1]).val * 3600 + Number(parts[2]).val * 60
                      + Number(parts[3]).val
           [] OTHER -> 0

(* What sortOption orders by, larger first. *)
SortKey(sortOption, v) ==
    CASE sortOption = "newest" -> store.cols[v].createdAt
      [] sortOption = "price_asc" -> 0 - store.cols[v].price
      [] sortOption = "price_desc" -> store.cols[v].price
      [] sortOption = "views_desc" -> store.cols[v].views
      [] sortOption = "duration_desc" -> TotalSeconds(store.cols[v].duration)

(* order holds the records of fetched, by sortOption, ties in fetch order. *)
OrderedBy(sortOption, order, fetched) ==
    /\ Len(order) = Len(fetched)
    /\ {order[k] : k \in DOMAIN order} = {fetched[k] : k \in DOMAIN fetched}
    /\ \A i, j \in DOMAIN order :
          i < j =>
            \/ SortKey(sortOption, order[i]) > SortKey(sortOption, order[j])
            \/ /\ SortKey(sortOption, order[i]) = SortKey(sortOption, order[j])
               /\ FetchPos(order[i]) < FetchPos(order[j])

Reported(r) == [pc |-> r.pc, order |-> r.order, snap |-> r.snap]

(* What getVideoIds reports for an empty catalog and getVideo for an id     *)
(* the store has no row for.                                                *)
NothingThere == [pc |-> "done", order |-> << >>, snap |-> Null]

(* C19: a getVideoIds or getVideo call whose read of the store failed       *)
(* reports something else to its caller than a call that found an empty     *)
(* catalog or no record.                                                    *)
C19_ReadFailureDistinguishable ==
    (hist.last.op \in {"ids", "one"} /\ hist.last.failed)
        => Reported(hist.last) # NothingThere

(* C21: getAllVideos never fails because of a thumbnail. A call throws only *)
(* when its read of the store failed; a call that returns gives every       *)
(* record a thumbnailUrl, the URL getThumbnailUrl resolved or the           *)
(* placeholder, the placeholder when the record has no thumbnail            *)
(* identifier; and a call that fetched returns every row of the store that  *)
(* matches the query.                                                       *)
C21_ListingNeverFailsOnThumbnail ==
    /\ (hist.last.op = "list" /\ hist.last.pc = "threw") => hist.last.failed
    /\ ListReturned =>
          \A v \in DOMAIN hist.last.snap.rows :
              hist.last.snap.rows[v] \in
                  IF thumbnailFileId(v) = "" THEN {Placeholder}
                  ELSE {ResolvedThumbnailUrl(v), Placeholder}
    /\ (ListReturned /\ hist.last.src = "store"
           /\ hist.last.snap.ver = store.ver) =>
          DOMAIN hist.last.snap.rows
              = {v \in store.rows : MatchesQuery(v, hist.last.q)}

C21_Witness ==
    /\ ListReturned
    /\ hist.last.src = "store"
    /\ hist.last.thumbs = 1
    /\ hist.last.snap.ver = store.ver
    /\ DOMAIN hist.last.snap.rows = {"v1", "v2"}
    /\ hist.last.snap.rows["v1"] = Placeholder

(* The call that returned last is a deleteVideo of VideoServiceSupabase     *)
(* during which a deleteFile gave false.                                    *)
DeletedDespiteFiles ==
    /\ hist.last.op = "delete"
    /\ hist.last.via = "supabase"
    /\ hist.last.pc = "done"
    /\ hist.last.filesFailed

(* C22: a deleteFile that gives false does not keep deleteVideo from        *)
(* deleting the row, and deleteVideo returns true when the deletion of the  *)
(* row succeeded.                                                           *)
C22_FileFailureDoesNotBlockDelete ==
    (DeletedDespiteFiles /\ hist.last.wrote > 0) => hist.last.ok

(* C28: a mutation of VideoServiceSupabase whose remote write succeeded     *)
(* reports success to its caller, also when the getAllVideos of the         *)
(* forceRefreshCache that follows the write threw.                          *)
C28_WriteSuccessReported ==
    (hist.last.op \in Mutations /\ hist.last.via = "supabase"
        /\ hist.last.pc = "done" /\ hist.last.wrote > 0)
        => hist.last.ok

(* The folder prefixes the fallback recognises on an identifier. *)
FolderPrefixes == {"videos/", "thumbnails/"}

(* The folder of the calling context. *)
ExpectedFolder(k) == IF k = "thumb" THEN "thumbnails/" ELSE "videos/"

(* C23: the fallback URL is https://{bucket}.s3.{region}.wasabisys.com/     *)
(* followed by the identifier, with the folder of the calling context       *)
(* before it only when the identifier does not start with a recognised      *)
(* folder prefix already.                                                   *)
C23_FallbackPrefixedOnce ==
    \A c \in Calls :
        (Finished(c) /\ IsFallback(c)) =>
            call[c].result
                = "https://" \o config.bucket \o ".s3." \o config.region
                    \o ".wasabisys.com/"
                    \o (IF call[c].id.folder \in FolderPrefixes THEN ""
                        ELSE ExpectedFolder(call[c].kind))
                    \o IdString(call[c].id)

(* Two getThumbnailUrl calls for one identifier that were in flight         *)
(* together and both went to the signing endpoint.                          *)
BothMissed(a, b) ==
    /\ a # b
    /\ Finished(a) /\ Finished(b)
    /\ call[a].kind = "thumb" /\ call[b].kind = "thumb"
    /\ call[a].id = call[b].id
    /\ call[a].reqs >= 1 /\ call[b].reqs >= 1
    /\ a \notin call[b].prior /\ b \notin call[a].prior

(* C24: there is no single flight. Two concurrent getThumbnailUrl calls for *)
(* one uncached identifier can both miss and both issue a signing request   *)
(* (the witness); whenever that has happened both calls have returned a URL *)
(* and, until it expires, the cache holds one entry for the identifier,     *)
(* with the URL of the call that stored last.                               *)
C24_NoSingleFlightBothResolve ==
    \A a, b \in Calls :
        BothMissed(a, b) =>
            LET i == call[a].id
            IN  /\ call[a].result # NoUrl
                /\ call[b].result # NoUrl
                /\ (now - Max(call[a].entryAt, call[b].entryAt) <= CACHE_DURATION)
                      => /\ i \in DOMAIN thumbnailCache
                         /\ thumbnailCache[i].url
                              = call[thumbnailCache[i].by].result

C24_Witness ==
    \E a, b \in Calls :
        /\ BothMissed(a, b)
        /\ call[a].entryAt = now /\ call[b].entryAt = now
        /\ IsSigned(a) /\ IsSigned(b)
        /\ call[a].result # call[b].result
        /\ thumbnailCache[call[a].id].by = b
        /\ thumbnailCache[call[a].id].url = call[b].result
        /\ DOMAIN thumbnailCache = {call[a].id}

(* C25: sorting by DURATION_DESC returns the records by descending total    *)
(* seconds, where MM:SS is MM*60+SS, HH:MM:SS is HH*3600+MM*60+SS, and a    *)
(* duration with another number of parts or with a part that is no number   *)
(* counts as 0; records of equal seconds stay in fetch order.               *)
C25_DurationDescBySeconds ==
    (ListReturned /\ hist.last.sort = "duration_desc") =>
        OrderedBy("duration_desc", hist.last.order, hist.last.snap.order)

(* Whether s contains t when letters are compared without regard to case. *)
ContainsIgnoringCase(s, t) ==
    \E k \in 0..(Len(s) - Len(t)) :
        \A j \in 1..Len(t) : LowerOf(s[k + j]) = LowerOf(t[j])

(* The records of the store whose title or description contains text,      *)
(* compared without regard to case.                                        *)
Containing(text) ==
    {v \in store.rows :
        \/ ContainsIgnoringCase(Chars(Title(v)), text)
        \/ ContainsIgnoringCase(Chars(Description(v)), text)}

(* A listing for a non-empty query returned, fetched from the store as it   *)
(* is.                                                                      *)
SearchReturned ==
    /\ ListReturned
    /\ hist.last.q # ""
    /\ hist.last.snap.ver = store.ver

(* C26, as stated: for a non-empty search query getAllVideos returns        *)
(* exactly the fetched records whose title or description contains the      *)
(* query as a case-insensitive substring.                                   *)
C26_SearchReturnsContainingQuery ==
    SearchReturned => DOMAIN hist.last.snap.rows = Containing(Chars(hist.last.q))

(* C26, amended: for a non-empty search query getAllVideos returns exactly  *)
(* the fetched records whose title or description contains the query,       *)
(* trimmed of surrounding whitespace, as a case-insensitive substring, in   *)
(* fetch order; a query of whitespace only filters nothing.                 *)
C26_SearchReturnsContainingTrimmedQuery ==
    SearchReturned =>
        /\ DOMAIN hist.last.snap.rows = Containing(trim(Chars(hist.last.q)))
        /\ hist.last.snap.order =
               SelectSeq(VideoOrder,
                         LAMBDA v : v \in Containing(trim(Chars(hist.last.q))))

(* The query "cat" against the three titles returned the first and third. *)
C26_Witness ==
    /\ SearchReturned
    /\ hist.last.q = "cat"
    /\ store.rows = VideoIds
    /\ hist.last.snap.order = <<"v1", "v3">>

(* C27: activeRequests counts exactly the getThumbnailUrl calls between     *)
(* acquiring and releasing a slot: the slot of every such call is in        *)
(* activeRequests until that call itself releases it, also when another     *)
(* call for the same identifier completes meanwhile.                        *)
C27_SlotHeldUntilOwnRelease ==
    \A c \in Calls : InRetryLoop(c) => call[c].id \in activeRequests

(* An updateSiteConfig call has returned. *)
UpdateReturned(p) == site.proc[p].op = "update" /\ site.proc[p].pc = "done"

(* C29: when updateSiteConfig returns, on success and on every failure      *)
(* path, the configuration cache is empty, so that the next getSiteConfig   *)
(* reads the store.                                                         *)
C29_CacheEmptyAfterUpdate ==
    \A p \in ConfigCalls : UpdateReturned(p) => site.proc[p].left = NoSiteConfig

(* getVideo has returned the record of its video and the background         *)
(* resolution of the thumbnail is pending.                                  *)
BackgroundPending(p) == proc[p].op = "one" /\ proc[p].pc = "background"

(* The background resolution of the last getVideo has completed. *)
BackgroundCompleted ==
    /\ hist.last.op = "one"
    /\ hist.last.pc = "done"
    /\ hist.last.background \in BackgroundOutcomes

(* C30: getVideo returns the record with the placeholder and the background *)
(* resolution writes afterwards: while it is pending the returned record    *)
(* holds the placeholder, and once it has completed, by a cache hit or      *)
(* otherwise, the record holds the resolved URL, or the placeholder if it   *)
(* threw; the placeholder assignment never replaces a resolved URL.         *)
C30_BackgroundUrlWins ==
    /\ \A p \in Procs :
          BackgroundPending(p) => proc[p].snap.rows[proc[p].arg] = Placeholder
    /\ BackgroundCompleted =>
          hist.last.snap.rows[hist.last.arg] =
              IF hist.last.background = "threw" THEN Placeholder
              ELSE ResolvedThumbnailUrl(hist.last.arg)

(* The background resolution hit the cache and the record holds the URL. *)
C30_Witness ==
    /\ BackgroundCompleted
    /\ hist.last.background = "hit"
    /\ hist.last.snap.rows["v1"] = ResolvedThumbnailUrl("v1")

====
